---------------------------- MODULE Spec2Model ----------------------------
(***************************************************************************)
(* A model of the algebraic and encoding core of the ml-kem crate:         *)
(* field arithmetic in GF(3329), the rejection sampler that streams field  *)
(* elements out of a XOF, the matrix and vector samplers, the bit-packing  *)
(* byte codec and the forward / inverse NTT.                               *)
(*                                                                         *)
(* Every component has its own specification (SpecField, SpecReader, ...)  *)
(* over the shared variables; a component that a specification does not    *)
(* exercise keeps the value Unused.                                        *)
(***************************************************************************)
EXTENDS Integers, Sequences, FiniteSets, TLC

VARIABLES
    field,      \* one FieldElement operation: operands, operator, result
    reader,     \* FieldElementReader (with the XofReader it borrows)
    matrix,     \* NttMatrix::sample_uniform in progress
    codec,      \* byte_encode / byte_decode of one polynomial
    vcodec,     \* Encode<D> for PolynomialVector<K>
    ntt,        \* Polynomial::ntt / NttPolynomial::ntt_inverse / MultiplyNTTs
    cbd         \* PolynomialVector::sample_cbd in progress

vars == <<field, reader, matrix, codec, vcodec, ntt, cbd>>

Unused == [pc |-> "unused"]

(***************************************************************************)
(* Machine integers.  The crate computes in u8, u16, u32, u64 and u128.    *)
(***************************************************************************)
U8_MAX == 255

U16_MAX == 65535

Pow2(n) == 2 ^ n

\* bit k of the non-negative integer v
Bit(v, k) == (v \div Pow2(k)) % 2

RECURSIVE Gcd(_, _)
Gcd(x, y) == IF y = 0 THEN x ELSE Gcd(y, x % y)

(***************************************************************************)
(* FieldElement (algebra.rs).                                              *)
(***************************************************************************)
Q == 3329

BARRETT_SHIFT == 24

\* a multiplier with two bits less of precision than (1 << 24) / Q
BARRETT_MULTIPLIER_coarse == (Pow2(BARRETT_SHIFT - 2) \div Q) * Pow2(2)

BARRETT_MULTIPLIER == Pow2(BARRETT_SHIFT) \div Q

Canonical(x) == x \in 0 .. (Q - 1)

\* fn small_reduce(x: u16) -> u16
small_reduce_no_correction(x) == x

small_reduce(x) == IF x < Q THEN x ELSE x - Q

\* (u64::from(x) * BARRETT_MULTIPLIER) >> BARRETT_SHIFT, truncated to u32.
\* The 64-bit product is formed on the two 12-bit halves of the shift so that
\* no intermediate of the evaluation leaves 31 bits; for x < 2^30 the result
\* is the same integer, and it is below 2^32, so the truncation keeps it.
BarrettQuotient(x) ==
    LET half == Pow2(BARRETT_SHIFT \div 2)
        hi == x \div half
        lo == x % half
    IN  (hi * BARRETT_MULTIPLIER + (lo * BARRETT_MULTIPLIER) \div half) \div half

\* fn barrett_reduce(x: u32) -> u16
barrett_reduce_no_small_reduce(x) ==
    (x - BarrettQuotient(x) * Q) % (U16_MAX + 1)

barrett_reduce(x) ==
    LET quotient == BarrettQuotient(x)
        remainder == x - quotient * Q
    IN  small_reduce(remainder % (U16_MAX + 1))

\* impl Add<FieldElement> for FieldElement: self.0 + rhs.0 in u16.
\* AddWide is the sum before it is stored in u16; a debug build aborts when it
\* does not fit, a release build wraps.
AddWide(a, b) == a + b

FieldAdd(a, b) == small_reduce(AddWide(a, b) % (U16_MAX + 1))

\* impl Sub<FieldElement> for FieldElement: (self.0 + Q) - rhs.0 in u16.
\* SubWide is the pair of intermediates <<self.0 + Q, self.0 + Q - rhs.0>>.
SubWide_subtract_first(a, b) == <<a - b, a - b + Q>>

SubWide(a, b) == <<a + Q, a + Q - b>>

FieldSub(a, b) == small_reduce(SubWide(a, b)[2] % (U16_MAX + 1))

\* impl Mul<FieldElement> for FieldElement: u32 product, then Barrett.
MulWide(a, b) == a * b

FieldMul(a, b) == barrett_reduce(MulWide(a, b))

FitsU16(x) == x \in 0 .. U16_MAX

(***************************************************************************)
(* SpecField: one field operation on a pair of operands.                   *)
(*   field.trap is TRUE when an intermediate of the operation left its     *)
(*   machine type (a debug build aborts there, a release build wraps).     *)
(***************************************************************************)
FieldEdge == 3

FieldStride == 83

\* operands outside the canonical range (FieldElement's field is public)
NonCanonical == {Q, 4095, 40000}

FieldSamples ==
    {x \in 0 .. (Q - 1) : x < FieldEdge \/ x >= Q - FieldEdge \/ x % FieldStride = 0}

InitField ==
    /\ field \in [a : (0 .. (Q - 1)) \cup NonCanonical,
                  b : FieldSamples \cup NonCanonical,
                  op : {"none"}, out : {0}, trap : {FALSE}]
    /\ reader = Unused /\ matrix = Unused /\ codec = Unused
    /\ vcodec = Unused /\ ntt = Unused /\ cbd = Unused

OthersThanField == <<reader, matrix, codec, vcodec, ntt, cbd>>

Add ==
    /\ field.op = "none"
    /\ field' = [field EXCEPT !.op = "add",
                              !.out = FieldAdd(field.a, field.b),
                              !.trap = ~FitsU16(AddWide(field.a, field.b))]
    /\ UNCHANGED OthersThanField

Sub ==
    /\ field.op = "none"
    /\ field' = [field EXCEPT !.op = "sub",
                              !.out = FieldSub(field.a, field.b),
                              !.trap = \E k \in 1 .. 2 :
                                          ~FitsU16(SubWide(field.a, field.b)[k])]
    /\ UNCHANGED OthersThanField

Mul ==
    /\ field.op = "none"
    /\ field' = [field EXCEPT !.op = "mul",
                              !.out = FieldMul(field.a, field.b),
                              !.trap = FALSE]
    /\ UNCHANGED OthersThanField

NextField == Add \/ Sub \/ Mul

SpecField == InitField /\ [][NextField]_vars

\* C10: for canonical a and b, add, sub and mul return (a+b) mod q,
\* (a-b) mod q and (a*b) mod q; the result is canonical and no intermediate
\* of the u16 arithmetic underflows or overflows.
C10_FieldOps ==
    (field.op # "none" /\ Canonical(field.a) /\ Canonical(field.b)) =>
        /\ Canonical(field.out)
        /\ ~field.trap
        /\ field.op = "add" => field.out = (field.a + field.b) % Q
        /\ field.op = "sub" => field.out = (field.a - field.b) % Q
        /\ field.op = "mul" => field.out = (field.a * field.b) % Q

\* a subtraction whose minuend is the smaller operand has been carried out
C10_Witness ==
    /\ field.op = "sub"
    /\ Canonical(field.a) /\ Canonical(field.b)
    /\ field.a < field.b
    /\ field.out = field.a + Q - field.b

(***************************************************************************)
(* SpecBarrett: one call of FieldElement::barrett_reduce(x).               *)
(*   field.quotient and field.remainder are the locals of the call, the    *)
(*   remainder before it is truncated to u16.                              *)
(***************************************************************************)
BarrettEdge == 3

BarrettStride == 1009

\* let remainder = x - quotient * Q32, before remainder.truncate()
BarrettRemainder(x) == x - BarrettQuotient(x) * Q

\* arguments beyond the q^2 of the contract (x is a u32)
BeyondSquare == {Q * Q, 2 * (Q - 1) * (Q - 1), 30000000, Pow2(30) - 1}

\* arguments on both sides of every multiple of q below q^2, and a stride
BarrettSamples ==
    {k * Q + r : k \in 0 .. (Q - 1),
                 r \in (0 .. (BarrettEdge - 1)) \cup ((Q - BarrettEdge) .. (Q - 1))}
        \cup {BarrettStride * n : n \in 0 .. ((Q * Q - 1) \div BarrettStride)}

InitBarrett ==
    /\ field \in [x : BarrettSamples \cup BeyondSquare, op : {"none"},
                  quotient : {0}, remainder : {0}, out : {0}]
    /\ reader = Unused /\ matrix = Unused /\ codec = Unused
    /\ vcodec = Unused /\ ntt = Unused /\ cbd = Unused

Barrett ==
    /\ field.op = "none"
    /\ field' = [field EXCEPT !.op = "barrett",
                              !.quotient = BarrettQuotient(field.x),
                              !.remainder = BarrettRemainder(field.x),
                              !.out = barrett_reduce(field.x)]
    /\ UNCHANGED OthersThanField

NextBarrett == Barrett

SpecBarrett == InitBarrett /\ [][NextBarrett]_vars

\* C11: for every x with 0 <= x < q^2, barrett_reduce(x) is x mod q: the
\* quotient estimate is floor(x/q) or floor(x/q) - 1, so the remainder before
\* the correction lies in [0, 2q) and one conditional subtraction suffices
C11_BarrettExact ==
    (field.op = "barrett" /\ field.x < Q * Q) =>
        /\ field.quotient \in {field.x \div Q, (field.x \div Q) - 1}
        /\ field.remainder \in 0 .. (2 * Q - 1)
        /\ field.out = field.x % Q

\* a reduction below q^2 whose quotient estimate was one short, so that the
\* conditional subtraction was taken
C11_Witness ==
    /\ field.op = "barrett"
    /\ field.x < Q * Q
    /\ field.x > (Q - 1) * (Q - 1)
    /\ field.quotient = (field.x \div Q) - 1
    /\ field.remainder >= Q
    /\ field.out = field.x % Q


(***************************************************************************)
(* XOF (crypto.rs, outside this model's sources): XOF(rho, i, j) is a      *)
(* reader over an unbounded byte stream that is a function of (rho, i, j). *)
(* The stream is modelled as a sequence of 3-byte groups taken from        *)
(* GroupTable, whose entries sit on both sides of the acceptance bound     *)
(* d < 3329 for each of the two 12-bit candidates of a group.              *)
(***************************************************************************)
GroupTable ==
    << <<0, 13, 208>>,      \* d1 = 3328, d2 = 3328 : both accepted
       <<1, 13, 208>>,      \* d1 = 3329, d2 = 3328 : d2 only
       <<52, 18, 86>>,      \* d1 = 0x234, d2 = 0x561 : both accepted
       <<0, 29, 208>>,      \* d1 = 3328, d2 = 3329 : d1 only
       <<255, 255, 255>>,   \* d1 = 4095, d2 = 4095 : none
       <<171, 233, 7>>,     \* d1 = 0x9AB, d2 = 0x07E : both accepted
       <<1, 29, 208>> >>    \* d1 = 3329, d2 = 3329 : none

\* the group table entry that the stream of key = <<rho, i, j>> holds at
\* group g (bytes 3g .. 3g+2)
XofGroup(key, g) ==
    GroupTable[((key[1] + (key[2] + 1) * g + key[3] * (g \div 2)) % Len(GroupTable)) + 1]

XofByte(key, n) == XofGroup(key, n \div 3)[(n % 3) + 1]

\* XOF(rho, i, j): a fresh reader, nothing squeezed yet
XOF(rho, i, j) == [key |-> <<rho, i, j>>, pos |-> 0]

\* XofReader::read(&mut buf): fills buf with the next len bytes of the stream
XofRead(xof, len) ==
    [xof |-> [xof EXCEPT !.pos = xof.pos + len],
     bytes |-> [k \in 0 .. (len - 1) |-> XofByte(xof.key, xof.pos + k)]]

(***************************************************************************)
(* FieldElementReader (algebra.rs), Algorithm 6 lines 4-13.                *)
(*   Option<Integer> is <<>> for None and <<v>> for Some(v).               *)
(***************************************************************************)
DATA_LEN == 96

N == 256

None == <<>>

Some(v) == <<v>>

\* FieldElementReader::new
ReaderNew(xof) ==
    LET rd == XofRead(xof, DATA_LEN)
    IN  [xof |-> rd.xof, data |-> rd.bytes, start |-> 0, next |-> None]

\* d1 = b[0] + ((b[1] & 0xf) << 8), in u16
D1_wrong_mask(b) == b[0] + (((b[1] \div 16) * 256) % (U16_MAX + 1))

D1(b) == b[0] + (((b[1] % 16) * 256) % (U16_MAX + 1))

\* d2 = (b[1] >> 4) + (b[2] << 4), in u16
D2(b) == (b[1] \div 16) + ((b[2] * 16) % (U16_MAX + 1))

\* the cache after d1 has been accepted
CacheD2_always(r, d2) == Some(d2)

CacheD2_never(r, d2) == None

CacheD2(r, d2) == IF d2 < Q THEN Some(d2) ELSE r.next

\* the refill at the head of the loop body
Refill_keep_start(r) ==
    IF r.start = DATA_LEN
    THEN LET rd == XofRead(r.xof, DATA_LEN)
         IN  [r EXCEPT !.xof = rd.xof, !.data = rd.bytes, !.start = 3]
    ELSE r

Refill(r) ==
    IF r.start = DATA_LEN
    THEN LET rd == XofRead(r.xof, DATA_LEN)
         IN  [r EXCEPT !.xof = rd.xof, !.data = rd.bytes, !.start = 0]
    ELSE r

LoopBody_drops_lone_d2(r) ==
    LET r1 == Refill(r)
        b == [k \in 0 .. 2 |-> r1.data[r1.start + k]]
        r2 == [r1 EXCEPT !.start = r1.start + 3]
    IN  IF D1(b) < Q
        THEN [r |-> [r2 EXCEPT !.next = CacheD2(r2, D2(b))], ret |-> Some(D1(b))]
        ELSE [r |-> r2, ret |-> None]

\* One iteration of the loop of FieldElementReader::next: the reader after
\* it and the value it returns (None: the loop goes round again).
LoopBody(r) ==
    LET r1 == Refill(r)
        end == r1.start + 3
        b == [k \in 0 .. 2 |-> r1.data[r1.start + k]]
        r2 == [r1 EXCEPT !.start = end]
        d1 == D1(b)
        d2 == D2(b)
    IN  IF d1 < Q
        THEN [r |-> [r2 EXCEPT !.next = CacheD2(r2, d2)], ret |-> Some(d1)]
        ELSE IF d2 < Q
             THEN [r |-> r2, ret |-> Some(d2)]
             ELSE [r |-> r2, ret |-> None]

(***************************************************************************)
(* SpecReader: NttPolynomial::sample_uniform on the stream of one key.     *)
(*   reader.pc is "idle" between calls of next() and "loop" while a call   *)
(*   is inside its loop; reader.out is the part of the array generated so  *)
(*   far; reader.groups counts the 3-byte groups consumed.                 *)
(***************************************************************************)
NumRho == 2

KMax == 4

Rhos == 0 .. (NumRho - 1)

XofKeys == {<<rho, i, j>> : rho \in Rhos, i \in 0 .. (KMax - 1), j \in 0 .. (KMax - 1)}

InitReader ==
    /\ \E key \in XofKeys :
          reader = [pc |-> "idle", key |-> key,
                    r |-> ReaderNew(XOF(key[1], key[2], key[3])),
                    out |-> <<>>, groups |-> 0, last |-> "none"]
    /\ field = Unused /\ matrix = Unused /\ codec = Unused
    /\ vcodec = Unused /\ ntt = Unused /\ cbd = Unused

OthersThanReader == <<field, matrix, codec, vcodec, ntt, cbd>>

NextCached_keeps_cache ==
    /\ reader.pc = "idle"
    /\ Len(reader.out) < N
    /\ reader.r.next # None
    /\ reader' = [reader EXCEPT !.out = Append(@, reader.r.next[1]),
                                !.last = "cached"]
    /\ UNCHANGED OthersThanReader

\* next() finds a cached d2: it returns it and clears the cache
NextCached ==
    /\ reader.pc = "idle"
    /\ Len(reader.out) < N
    /\ reader.r.next # None
    /\ reader' = [reader EXCEPT !.out = Append(@, reader.r.next[1]),
                                !.r.next = None,
                                !.last = "cached"]
    /\ UNCHANGED OthersThanReader

\* next() enters its loop (the cache is empty), or goes round it once more
NextLoop ==
    /\ \/ reader.pc = "idle" /\ Len(reader.out) < N /\ reader.r.next = None
       \/ reader.pc = "loop"
    /\ LET res == LoopBody(reader.r)
       IN  reader' = [reader EXCEPT
                         !.r = res.r,
                         !.groups = @ + 1,
                         !.out = IF res.ret = None THEN @ ELSE Append(@, res.ret[1]),
                         !.pc = IF res.ret = None THEN "loop" ELSE "idle",
                         !.last = IF res.ret = None THEN "rejected" ELSE "group"]
    /\ UNCHANGED OthersThanReader

NextReader == NextCached \/ NextLoop

SpecReader == InitReader /\ [][NextReader]_vars

SampleDone == reader.pc = "idle" /\ Len(reader.out) = N

\* bitwise or of two 16-bit values
BitOr(x, y) ==
    LET bit(k) == IF Bit(x, k) = 1 \/ Bit(y, k) = 1 THEN Pow2(k) ELSE 0
        RECURSIVE sum(_)
        sum(k) == IF k = 0 THEN bit(0) ELSE bit(k) + sum(k - 1)
    IN  sum(15)

\* Algorithm 6 without the reader: candidate c of the stream is d1 of group
\* c / 2 when c is even and d2 of that group when c is odd
Candidate(key, c) ==
    LET g == c \div 2
        b0 == XofByte(key, 3 * g)
        b1 == XofByte(key, 3 * g + 1)
        b2 == XofByte(key, 3 * g + 2)
    IN  IF c % 2 = 0
        THEN BitOr(b0, (b1 % 16) * 256)
        ELSE BitOr(b1 \div 16, b2 * 16)

ScanChunk == 64

RECURSIVE ScanCandidates(_, _, _, _, _)
ScanCandidates(key, c, stop, n, acc) ==
    IF c = stop \/ Len(acc) = n
    THEN acc
    ELSE LET d == Candidate(key, c)
         IN  ScanCandidates(key, c + 1, stop, n,
                            IF d < Q THEN Append(acc, d) ELSE acc)

\* the first n values below q of the candidate sequence of the stream
RECURSIVE FirstAccepted(_, _, _, _)
FirstAccepted(key, c, n, acc) ==
    IF Len(acc) = n
    THEN acc
    ELSE FirstAccepted(key, c + ScanChunk, n,
                       ScanCandidates(key, c, c + ScanChunk, n, acc))

\* C1: the 256 elements sample_uniform returns are, in order, the first 256
\* values below q of the candidate sequence d1(t0), d2(t0), d1(t1), ... of
\* the stream
C1_SampleMatchesAlgorithm6 ==
    SampleDone => reader.out = FirstAccepted(reader.key, 0, N, <<>>)

\* a sample is complete whose stream made the reader refill, reject both
\* candidates of a group, and deliver a cached d2
C1_Witness ==
    /\ SampleDone
    /\ reader.r.xof.pos > DATA_LEN
    /\ \E g \in 0 .. (reader.groups - 1) :
          /\ Candidate(reader.key, 2 * g) >= Q
          /\ Candidate(reader.key, 2 * g + 1) >= Q
    /\ \E g \in 0 .. (reader.groups - 2) :
          /\ Candidate(reader.key, 2 * g) < Q
          /\ Candidate(reader.key, 2 * g + 1) < Q

\* the step a call of next() takes from the current state, against the two
\* candidates of the group the stream holds next
CachedThenDelivered ==
    LET g == reader.groups
        d1 == Candidate(reader.key, 2 * g)
        d2 == Candidate(reader.key, 2 * g + 1)
    IN  IF reader.r.next # None
        THEN /\ reader'.out = Append(reader.out, reader.r.next[1])
             /\ reader'.r.next = None
             /\ reader'.r.start = reader.r.start
             /\ reader'.r.xof = reader.r.xof
             /\ reader'.r.data = reader.r.data
             /\ reader'.groups = reader.groups
        ELSE /\ reader'.groups = g + 1
             /\ (d1 < Q /\ d2 < Q) =>
                   /\ reader'.out = Append(reader.out, d1)
                   /\ reader'.r.next = Some(d2)
             /\ (d1 >= Q \/ d2 >= Q) => reader'.r.next = None

\* C17: when next() returns d1 of a group whose d2 is also below q, d2 is
\* cached and the following call returns exactly that d2, clears the cache
\* and neither advances the buffer position nor reads from the XOF; when
\* d1 >= q or d2 >= q the cache is empty after the call
C17_CachedD2DeliveredNext == [][CachedThenDelivered]_vars

\* a cached d2 has just been delivered: the last two elements are d1 and d2
\* of the last group consumed, and the cache is empty again
C17_Witness ==
    /\ reader.last = "cached"
    /\ reader.r.next = None
    /\ reader.groups >= 1
    /\ Len(reader.out) >= 2
    /\ reader.out[Len(reader.out) - 1] = Candidate(reader.key, 2 * (reader.groups - 1))
    /\ reader.out[Len(reader.out)] = Candidate(reader.key, 2 * (reader.groups - 1) + 1)
    /\ reader.r.start = (3 * reader.groups) % DATA_LEN

\* C18: start is a multiple of 3 with 0 <= start <= 96; the XOF is read only
\* in whole 96-byte blocks, once at construction and then only when a group
\* is needed while start = 96, so the n-th group consumed is bytes
\* [3n, 3n+3) of the stream, and nothing is pulled after the 256th element
C18_BufferDiscipline ==
    LET r == reader.r
        blocks == IF reader.groups = 0 THEN 1
                  ELSE ((3 * reader.groups - 1) \div DATA_LEN) + 1
    IN  /\ r.start % 3 = 0
        /\ r.start \in 0 .. DATA_LEN
        /\ r.xof.pos = DATA_LEN * blocks
        /\ (r.xof.pos - DATA_LEN) + r.start = 3 * reader.groups
        /\ \A k \in 0 .. (DATA_LEN - 1) :
              r.data[k] = XofByte(reader.key, (r.xof.pos - DATA_LEN) + k)
        /\ Len(reader.out) <= N

\* the first buffer has been used up and is not replaced until the next
\* group is needed
C18_Witness ==
    /\ reader.r.start = DATA_LEN
    /\ reader.r.xof.pos = DATA_LEN
    /\ reader.groups = DATA_LEN \div 3
    /\ Len(reader.out) < N

\* SpecReaderLive: the caller keeps calling next() until the array is full
\* and a call keeps going round its loop
SpecReaderLive == SpecReader /\ WF_vars(NextReader)

\* C19: sample_uniform terminates with exactly 256 elements; a call of next()
\* goes round its loop again only after a group whose candidates are both
\* >= q
C19_SampleTerminates ==
    /\ <>SampleDone
    /\ [](Len(reader.out) <= N)
    /\ [](reader.pc = "loop" =>
            /\ Candidate(reader.key, 2 * (reader.groups - 1)) >= Q
            /\ Candidate(reader.key, 2 * (reader.groups - 1) + 1) >= Q)

\* the array is full after a call that went round its loop more than once and
\* then returned
C19_Witness ==
    /\ SampleDone
    /\ reader.last = "group"
    /\ reader.groups >= 2
    /\ Candidate(reader.key, 2 * (reader.groups - 2)) >= Q
    /\ Candidate(reader.key, 2 * (reader.groups - 2) + 1) >= Q

\* C20: every value next() returns is below 3329, and so is the cached
\* candidate when there is one; hence all 256 coefficients are canonical
C20_ReaderCanonical ==
    /\ \A i \in 1 .. Len(reader.out) : Canonical(reader.out[i])
    /\ reader.r.next # None => Canonical(reader.r.next[1])

\* the array is full, holds the largest canonical value, and the last group
\* consumed had d1 accepted and d2 = 3329 turned away
C20_Witness ==
    /\ SampleDone
    /\ \E i \in 1 .. N : reader.out[i] = Q - 1
    /\ Candidate(reader.key, 2 * (reader.groups - 1)) < Q
    /\ Candidate(reader.key, 2 * (reader.groups - 1) + 1) = Q
    /\ reader.r.next = None

(***************************************************************************)
(* NttPolynomial::sample_uniform as a function of the XOF reader.          *)
(***************************************************************************)
\* the loop of FieldElementReader::next, run until it returns
RECURSIVE ReaderLoop(_)
ReaderLoop(r) ==
    LET res == LoopBody(r)
    IN  IF res.ret = None THEN ReaderLoop(res.r) ELSE res

\* FieldElementReader::next: the reader after the call, the element returned
ReaderNext(r) ==
    IF r.next # None
    THEN [r |-> [r EXCEPT !.next = None], ret |-> r.next]
    ELSE ReaderLoop(r)

\* GenericArray::generate(|_| reader.next()): elements are generated in index
\* order.  The evaluation proceeds in runs of GenChunk calls.
GenChunk == 32

RECURSIVE GenerateUpTo(_, _, _)
GenerateUpTo(r, out, stop) ==
    IF Len(out) >= stop
    THEN [r |-> r, out |-> out]
    ELSE LET res == ReaderNext(r)
         IN  GenerateUpTo(res.r, Append(out, res.ret[1]), stop)

RECURSIVE Generate(_, _)
Generate(r, out) ==
    IF Len(out) = N
    THEN out
    ELSE LET stop == IF Len(out) + GenChunk > N THEN N ELSE Len(out) + GenChunk
             run == GenerateUpTo(r, out, stop)
         IN  Generate(run.r, run.out)

\* NttPolynomial::sample_uniform(B)
sample_uniform(xof) == Generate(ReaderNew(xof), <<>>)

(***************************************************************************)
(* NttVector::sample_uniform and NttMatrix::sample_uniform (algebra.rs).   *)
(*   matrix.m maps <<row, column>> to the polynomial stored there, for the *)
(*   entries generated so far (rows in order, columns in order within a    *)
(*   row); matrix.keys records the arguments XOF was called with.          *)
(***************************************************************************)
Ks == 2 .. KMax

\* usize -> u8 truncation (util.rs Truncate)
TruncateU8(x) == x % (U8_MAX + 1)

\* let (i, j) = if transpose { (i, j) } else { (j, i) };
\* with i the index NttMatrix::sample_uniform generates (the row) and j the
\* index NttVector::sample_uniform generates (the column)
XofIndices_never_swapped(i, j, transpose) == <<i, j>>

XofIndices_swapped_on_transpose(i, j, transpose) ==
    IF transpose THEN <<j, i>> ELSE <<i, j>>

XofIndices(i, j, transpose) == IF transpose THEN <<i, j>> ELSE <<j, i>>

\* the closure of NttVector::sample_uniform(rho, i, transpose) at column j:
\* the key of the XOF it opens
EntryKey(rho, i, j, transpose) ==
    LET ij == XofIndices(i, j, transpose)
    IN  <<rho, TruncateU8(ij[1]), TruncateU8(ij[2])>>

InitMatrix ==
    /\ matrix \in [pc : {"sampling"}, rho : Rhos, transpose : BOOLEAN, K : Ks,
                   i : {0}, j : {0}, m : {<<>>}, keys : {<<>>}]
    /\ field = Unused /\ reader = Unused /\ codec = Unused
    /\ vcodec = Unused /\ ntt = Unused /\ cbd = Unused

OthersThanMatrix == <<field, reader, codec, vcodec, ntt, cbd>>

\* one call of the inner closure: the polynomial of row matrix.i, column
\* matrix.j is sampled and stored
SampleEntry ==
    /\ matrix.pc = "sampling"
    /\ LET i == matrix.i
           j == matrix.j
           key == EntryKey(matrix.rho, i, j, matrix.transpose)
           poly == sample_uniform(XOF(key[1], key[2], key[3]))
           lastInRow == j + 1 = matrix.K
           lastRow == i + 1 = matrix.K
       IN  matrix' = [matrix EXCEPT
                         !.m = @ @@ (<<i, j>> :> poly),
                         !.keys = @ @@ (<<i, j>> :> key),
                         !.j = IF lastInRow THEN 0 ELSE j + 1,
                         !.i = IF lastInRow THEN i + 1 ELSE i,
                         !.pc = IF lastInRow /\ lastRow THEN "done" ELSE "sampling"]
    /\ UNCHANGED OthersThanMatrix

NextMatrix == SampleEntry

SpecMatrix == InitMatrix /\ [][NextMatrix]_vars

\* the polynomial that the XOF keyed on (rho, i, j) yields
UniformPolyOf == [key \in XofKeys |-> sample_uniform(XOF(key[1], key[2], key[3]))]

\* C2 as stated: the polynomial at row i, column j is drawn from the XOF keyed
\* on (rho, i, j) when transpose is false and on (rho, j, i) when it is true
C2_AsStated ==
    \A e \in DOMAIN matrix.m :
        matrix.m[e] = UniformPolyOf[IF matrix.transpose
                                    THEN <<matrix.rho, e[2], e[1]>>
                                    ELSE <<matrix.rho, e[1], e[2]>>]

\* C2 amended: the polynomial at row i, column j is drawn from the XOF keyed
\* on (rho, j, i) when transpose is false and on (rho, i, j) when it is true,
\* for every i, j in 0..K
C2_KeyedOnSwappedIndices ==
    /\ \A e \in DOMAIN matrix.m :
          LET key == IF matrix.transpose
                     THEN <<matrix.rho, e[1], e[2]>>
                     ELSE <<matrix.rho, e[2], e[1]>>
          IN  /\ matrix.keys[e] = key
              /\ matrix.m[e] = UniformPolyOf[key]
    /\ matrix.pc = "done" =>
          DOMAIN matrix.m = (0 .. (matrix.K - 1)) \X (0 .. (matrix.K - 1))

\* a whole matrix has been sampled without the flag, and an off-diagonal
\* entry differs from its mirror image
C2_Witness ==
    /\ matrix.pc = "done"
    /\ ~matrix.transpose
    /\ matrix.m[<<0, 1>>] = UniformPolyOf[<<matrix.rho, 1, 0>>]
    /\ matrix.m[<<0, 1>>] # matrix.m[<<1, 0>>]

(***************************************************************************)
(* Byte codec (encode.rs): Algorithms 4 and 5.                             *)
(*   A DecodedValue is a function 0..255 -> u16; an EncodedPolynomial<D>   *)
(*   is a function 0..32*D-1 -> u8.  The u128 accumulator x of a chunk is  *)
(*   modelled by its bits.                                                 *)
(***************************************************************************)
\* the widths with an EncodingSize implementation (param.rs)
Widths == {1, 4, 5, 6, 10, 11, 12}

\* D::ValueStep = lcm(D, 8) / D and D::ByteStep = lcm(D, 8) / 8 (param.rs)
ValueStep(d) == 8 \div Gcd(d, 8)

ByteStep(d) == d \div Gcd(d, 8)

\* D::EncodedPolynomialSize (param.rs): 32 * D bytes
EncodedPolynomialSize(d) == (N \div 8) * d

\* the integer whose bits 0 .. n-1 are bits[0] .. bits[n-1]
RECURSIVE FromBits(_, _)
FromBits(bits, n) ==
    IF n = 0 THEN 0 ELSE bits[n - 1] * Pow2(n - 1) + FromBits(bits, n - 1)

\* the shift of value j of a chunk: D::USIZE * j
EncodeShift_bytewise(d, j) == 8 * j

EncodeShift(d, j) == d * j

\* bit n of x after `x |= u128::from(vj.0) << (D::USIZE * j)` for every value
\* vj of chunk c (a u16 shifted by at most 77 stays inside the u128)
EncodeAccBit(d, vals, c, n) ==
    IF \E j \in 0 .. (ValueStep(d) - 1) :
          /\ n >= EncodeShift(d, j)
          /\ n - EncodeShift(d, j) <= 15
          /\ Bit(vals[c * ValueStep(d) + j], n - EncodeShift(d, j)) = 1
    THEN 1
    ELSE 0

\* fn byte_encode<D>(vals: &DecodedValue) -> EncodedPolynomial<D>:
\* byte m of chunk c is byte m of x.to_le_bytes()
byte_encode(d, vals) ==
    [k \in 0 .. (EncodedPolynomialSize(d) - 1) |->
        LET c == k \div ByteStep(d)
            m == k % ByteStep(d)
        IN  FromBits([t \in 0 .. 7 |-> EncodeAccBit(d, vals, c, 8 * m + t)], 8)]

\* bit n of x = u128::from_le_bytes(xb), xb[..byte_step] the bytes of chunk c
\* and the rest of xb zero
DecodeAccBit(d, bytes, c, n) ==
    IF n < 8 * ByteStep(d)
    THEN Bit(bytes[c * ByteStep(d) + (n \div 8)], n % 8)
    ELSE 0

\* val & mask, mask = (1 << D::USIZE) - 1
DecodeMask_none(d, val) == val

DecodeMask(d, val) == val % Pow2(d)

\* if D::USIZE == 12 { vj.0 %= FieldElement::Q }
DecodeReduce_never(d, v) == v

DecodeReduce(d, v) == IF d = 12 THEN v % Q ELSE v

\* fn byte_decode<D>(bytes: &EncodedPolynomial<D>) -> DecodedValue
byte_decode(d, bytes) ==
    [i \in 0 .. (N - 1) |->
        LET c == i \div ValueStep(d)
            j == i % ValueStep(d)
            \* (x >> (D::USIZE * j)).truncate(): the low 16 bits
            val == FromBits([t \in 0 .. 15 |-> DecodeAccBit(d, bytes, c, d * j + t)], 16)
        IN  DecodeReduce(d, DecodeMask(d, val))]

(***************************************************************************)
(* SpecCodec: one polynomial is encoded and decoded again ("value"), or a  *)
(* buffer that did not come from byte_encode is decoded ("wire").          *)
(***************************************************************************)
NumRamps == 2

NumWires == 3

\* the bound below which a coefficient is in range at width d
RangeOf(d) == IF d = 12 THEN Q ELSE Pow2(d)

InRange(d, vals) == \A i \in 0 .. (N - 1) : vals[i] < RangeOf(d)

Alternating == [i \in 0 .. (N - 1) |-> i % 2]

Repeat8 == [i \in 0 .. (N - 1) |-> i % 8]

Constant(v) == [i \in 0 .. (N - 1) |-> v]

Ramp(s, m) == [i \in 0 .. (N - 1) |-> (i * (37 * s + 1) + s * s) % m]

\* in-range values, and values beyond the range of the width
ValueInputs(d) ==
    {Alternating, Repeat8, Constant(RangeOf(d) - 1), Constant(4095)}
        \cup {Ramp(s, RangeOf(d)) : s \in 1 .. NumRamps}
        \cup {Ramp(s, Q) : s \in 1 .. NumRamps}

AllFF(d) == [k \in 0 .. (EncodedPolynomialSize(d) - 1) |-> U8_MAX]

WireRamp(d, s) ==
    [k \in 0 .. (EncodedPolynomialSize(d) - 1) |-> (k * (58 * s + 1) + 101 * s) % (U8_MAX + 1)]

WireInputs(d) == {AllFF(d)} \cup {WireRamp(d, s) : s \in 1 .. NumWires}

InitCodec ==
    /\ \E d \in Widths :
          \/ \E v \in ValueInputs(d) :
                codec = [pc |-> "value", d |-> d, vals |-> v, bytes |-> <<>>, out |-> <<>>]
          \/ \E w \in WireInputs(d) :
                codec = [pc |-> "wire", d |-> d, vals |-> <<>>, bytes |-> w, out |-> <<>>]
    /\ field = Unused /\ reader = Unused /\ matrix = Unused
    /\ vcodec = Unused /\ ntt = Unused /\ cbd = Unused

OthersThanCodec == <<field, reader, matrix, vcodec, ntt, cbd>>

Encode ==
    /\ codec.pc = "value"
    /\ codec' = [codec EXCEPT !.bytes = byte_encode(codec.d, codec.vals),
                              !.pc = "encoded"]
    /\ UNCHANGED OthersThanCodec

Decode ==
    /\ codec.pc \in {"encoded", "wire"}
    /\ codec' = [codec EXCEPT !.out = byte_decode(codec.d, codec.bytes),
                              !.pc = IF codec.pc = "wire" THEN "decoded" ELSE "roundtrip"]
    /\ UNCHANGED OthersThanCodec

NextCodec == Encode \/ Decode

SpecCodec == InitCodec /\ [][NextCodec]_vars

\* C3: for every width d and every p with coefficients in [0, 2^d) (for
\* d = 12 in [0, q)), byte_decode_d(byte_encode_d(p)) = p
C3_RoundTrip ==
    (codec.pc = "roundtrip" /\ InRange(codec.d, codec.vals)) => codec.out = codec.vals

\* an 11-bit polynomial that holds the largest 11-bit value went round
C3_Witness ==
    /\ codec.pc = "roundtrip"
    /\ codec.d = 11
    /\ InRange(codec.d, codec.vals)
    /\ \E i \in 0 .. (N - 1) : codec.vals[i] = 2047 /\ codec.out[i] = 2047

\* ByteDecode_d read off the buffer as one little-endian bit string: field i
\* is bits d*i .. d*i + d - 1
BitOfBuffer(bytes, k) == Bit(bytes[k \div 8], k % 8)

FieldOfBuffer(d, bytes, i) ==
    FromBits([t \in 0 .. (d - 1) |-> BitOfBuffer(bytes, d * i + t)], d)

\* C7: every coefficient byte_decode_d returns is canonical; it is below 2^d
\* for d < 12 and is the 12-bit field reduced mod 3329 for d = 12; 384 bytes
\* of 0xFF decode at d = 12 to 766 in all 256 slots
C7_DecodeCanonical ==
    codec.pc \in {"decoded", "roundtrip"} =>
        /\ \A i \in 0 .. (N - 1) :
              /\ Canonical(codec.out[i])
              /\ codec.d < 12 => codec.out[i] < Pow2(codec.d)
              /\ codec.d = 12 =>
                    codec.out[i] = FieldOfBuffer(12, codec.bytes, i) % Q
        /\ (codec.d = 12 /\ codec.bytes = AllFF(12)) =>
              codec.out = Constant(766)

\* 384 bytes of 0xFF have been decoded at width 12
C7_Witness ==
    /\ codec.pc = "decoded"
    /\ codec.d = 12
    /\ codec.bytes = AllFF(12)
    /\ codec.out[0] = 766 /\ codec.out[N - 1] = 766

Below2d(d, vals) == \A i \in 0 .. (N - 1) : vals[i] < Pow2(d)

RepeatBytes(pattern, d) ==
    [k \in 0 .. (EncodedPolynomialSize(d) - 1) |-> pattern[(k % Len(pattern)) + 1]]

\* C8: for p with coefficients in [0, 2^d), bit (k mod 8) of output byte
\* floor(k/8) is bit (k mod d) of coefficient floor(k/d), for 0 <= k < 256*d;
\* and the known answers at d = 1, 4, 5 and 12
C8_EncodeBitLevel ==
    (codec.pc \in {"encoded", "roundtrip"} /\ Below2d(codec.d, codec.vals)) =>
        /\ DOMAIN codec.bytes = 0 .. (EncodedPolynomialSize(codec.d) - 1)
        /\ \A k \in 0 .. (N * codec.d - 1) :
              BitOfBuffer(codec.bytes, k) = Bit(codec.vals[k \div codec.d], k % codec.d)
        /\ (codec.d = 1 /\ codec.vals = Alternating) =>
              codec.bytes = RepeatBytes(<<170>>, 1)
        /\ (codec.d = 4 /\ codec.vals = Repeat8) =>
              codec.bytes = RepeatBytes(<<16, 50, 84, 118>>, 4)
        /\ (codec.d = 5 /\ codec.vals = Repeat8) =>
              codec.bytes = RepeatBytes(<<32, 136, 65, 138, 57>>, 5)
        /\ (codec.d = 12 /\ codec.vals = Repeat8) =>
              codec.bytes = RepeatBytes(<<0, 16, 0, 2, 48, 0, 4, 80, 0, 6, 112, 0>>, 12)

\* the sequence 0..7 repeated has been encoded at width 5
C8_Witness ==
    /\ codec.pc = "encoded"
    /\ codec.d = 5
    /\ codec.vals = Repeat8
    /\ codec.bytes[0] = 32 /\ codec.bytes[4] = 57

(***************************************************************************)
(* Flatten / Unflatten (util.rs) and Encode<D> for PolynomialVector<K>     *)
(* (encode.rs).  An Array<Array<T, M>, K> is a function 0..K-1 -> (0..M-1  *)
(* -> T); the casts read the same memory, in which part i occupies         *)
(* elements i*M .. i*M + M - 1.                                            *)
(***************************************************************************)
\* the part, and the place in it, that element x of the flat array is read
\* from when k parts of m elements each are laid out one after another
PartOf_interleaved(x, m, k) == x % k

PartOf(x, m, k) == x \div m

OffsetOf(x, m, k) == x % m

\* Flatten::flatten for k parts of m elements
Flatten(parts, m, k) ==
    [x \in 0 .. (m * k - 1) |-> parts[PartOf(x, m, k)][OffsetOf(x, m, k)]]

\* Unflatten::unflatten of n elements into k parts: part i starts at
\* ptr + i * part_size, part_size = n / k
Unflatten(flat, n, k) ==
    LET part_size == n \div k
    IN  [i \in 0 .. (k - 1) |-> [j \in 0 .. (part_size - 1) |-> flat[i * part_size + j]]]

\* D::EncodedPolynomialVectorSize (param.rs): K * 32 * D bytes
EncodedPolynomialVectorSize(d, k) == EncodedPolynomialSize(d) * k

\* Encode<D> for PolynomialVector<K>::encode
VectorEncodeParts(d, polys, k) == [i \in 0 .. (k - 1) |-> byte_encode(d, polys[i])]

VectorEncode(d, polys, k) ==
    Flatten(VectorEncodeParts(d, polys, k), EncodedPolynomialSize(d), k)

\* Encode<D> for PolynomialVector<K>::decode
VectorDecode(d, bytes, k) ==
    LET unfold == Unflatten(bytes, EncodedPolynomialVectorSize(d, k), k)
    IN  [i \in 0 .. (k - 1) |-> byte_decode(d, unfold[i])]

(***************************************************************************)
(* SpecVector: a vector of K polynomials is encoded and decoded again.     *)
(***************************************************************************)
\* the polynomials of an input vector differ from one another
VectorInputs(d, k) ==
    {[i \in 0 .. (k - 1) |-> Repeat8]}
        \cup {[i \in 0 .. (k - 1) |-> Ramp(s + i, RangeOf(d))] : s \in 1 .. NumRamps}
        \cup {[i \in 0 .. (k - 1) |-> Ramp(s + i, Q)] : s \in 1 .. NumRamps}

InitVector ==
    /\ \E d \in Widths, k \in Ks :
          \E v \in VectorInputs(d, k) :
             vcodec = [pc |-> "value", d |-> d, K |-> k, polys |-> v,
                       parts |-> <<>>, bytes |-> <<>>, unfold |-> <<>>, out |-> <<>>]
    /\ field = Unused /\ reader = Unused /\ matrix = Unused
    /\ codec = Unused /\ ntt = Unused /\ cbd = Unused

OthersThanVector == <<field, reader, matrix, codec, ntt, cbd>>

EncodeVector ==
    /\ vcodec.pc = "value"
    /\ vcodec' = [vcodec EXCEPT
                     !.parts = VectorEncodeParts(vcodec.d, vcodec.polys, vcodec.K),
                     !.bytes = VectorEncode(vcodec.d, vcodec.polys, vcodec.K),
                     !.pc = "encoded"]
    /\ UNCHANGED OthersThanVector

DecodeVector ==
    /\ vcodec.pc = "encoded"
    /\ vcodec' = [vcodec EXCEPT
                     !.unfold = Unflatten(vcodec.bytes,
                                          EncodedPolynomialVectorSize(vcodec.d, vcodec.K),
                                          vcodec.K),
                     !.out = VectorDecode(vcodec.d, vcodec.bytes, vcodec.K),
                     !.pc = "roundtrip"]
    /\ UNCHANGED OthersThanVector

NextVector == EncodeVector \/ DecodeVector

SpecVector == InitVector /\ [][NextVector]_vars

\* bytes [i * size, (i + 1) * size) of a buffer
SliceOf(bytes, i, size) == [j \in 0 .. (size - 1) |-> bytes[i * size + j]]

\* C9: the vector encoding is K*32*d bytes whose slice i is the width-d
\* encoding of polynomial i; vector decode returns as polynomial i the width-d
\* decoding of slice i; unflatten(flatten(x)) = x; and vector decode inverts
\* vector encode on in-range coefficients
C9_VectorCodec ==
    LET d == vcodec.d
        k == vcodec.K
        size == 32 * d
    IN  /\ vcodec.pc \in {"encoded", "roundtrip"} =>
              /\ DOMAIN vcodec.bytes = 0 .. (k * size - 1)
              /\ \A i \in 0 .. (k - 1) :
                    SliceOf(vcodec.bytes, i, size) = byte_encode(d, vcodec.polys[i])
        /\ vcodec.pc = "roundtrip" =>
              /\ \A i \in 0 .. (k - 1) :
                    vcodec.out[i] = byte_decode(d, SliceOf(vcodec.bytes, i, size))
              /\ vcodec.unfold = vcodec.parts
              /\ (\A i \in 0 .. (k - 1) : InRange(d, vcodec.polys[i])) =>
                    vcodec.out = vcodec.polys

\* a vector of four distinct in-range polynomials went round at width 10
C9_Witness ==
    /\ vcodec.pc = "roundtrip"
    /\ vcodec.K = 4
    /\ vcodec.d = 10
    /\ \A i \in 0 .. 3 : InRange(10, vcodec.polys[i])
    /\ \A i, j \in 0 .. 3 : i # j => vcodec.polys[i] # vcodec.polys[j]
    /\ vcodec.out = vcodec.polys

(***************************************************************************)
(* CBD sampling (algebra.rs): Polynomial::sample_cbd and                   *)
(* PolynomialVector::sample_cbd.                                           *)
(***************************************************************************)
\* i.count_ones() for a value of at most 16 bits
Popcount(v) ==
    Bit(v, 0) + Bit(v, 1) + Bit(v, 2) + Bit(v, 3) + Bit(v, 4) + Bit(v, 5)
        + Bit(v, 6) + Bit(v, 7) + Bit(v, 8) + Bit(v, 9) + Bit(v, 10) + Bit(v, 11)
        + Bit(v, 12) + Bit(v, 13) + Bit(v, 14) + Bit(v, 15)

\* Polynomial::ONES
ONES_negated ==
    [i \in 1 .. 8 |-> [j \in 1 .. 8 |-> (Popcount(j - 1) - Popcount(i - 1)) % Q]]

ONES ==
    << <<0, 3328, 3328, 3327, 3328, 3327, 3327, 3326>>,
       <<1, 0, 0, 3328, 0, 3328, 3328, 3327>>,
       <<1, 0, 0, 3328, 0, 3328, 3328, 3327>>,
       <<2, 1, 1, 0, 1, 0, 0, 3328>>,
       <<1, 0, 0, 3328, 0, 3328, 3328, 3327>>,
       <<2, 1, 1, 0, 1, 0, 0, 3328>>,
       <<2, 1, 1, 0, 1, 0, 0, 3328>>,
       <<3, 2, 2, 1, 2, 1, 1, 0>> >>

\* the CbdSamplingSize implementations (param.rs): eta in {2, 3}, with
\* Eta::SampleSize = 2 * eta
Etas == {2, 3}

SampleSize(eta) == 2 * eta

\* PRF::<Eta>(sigma, N) (crypto.rs, outside this model's sources): 64 * eta
\* bytes that are a function of (sigma, N); distinct N give distinct outputs
PRF(eta, sigma, n) ==
    [k \in 0 .. (64 * eta - 1) |-> (89 * sigma + 31 * n + 7 * k + n * k) % (U8_MAX + 1)]

\* Polynomial::sample_cbd::<Eta>(B)
sample_cbd_low_half_twice(eta, B) ==
    LET vals == byte_decode(SampleSize(eta), B)
    IN  [i \in 0 .. (N - 1) |->
            LET x == vals[i] % Pow2(eta)
            IN  ONES[x + 1][x + 1]]

sample_cbd(eta, B) ==
    LET vals == byte_decode(SampleSize(eta), B)
    IN  [i \in 0 .. (N - 1) |->
            LET x == vals[i] % Pow2(eta)        \* val.0 & ((1 << Eta::USIZE) - 1)
                y == vals[i] \div Pow2(eta)     \* val.0 >> Eta::USIZE
            IN  ONES[x + 1][y + 1]]

\* let N = start_n + i.truncate(), before it is stored in u8
CounterWide_decreasing(start_n, i) == start_n - TruncateU8(i)

CounterWide(start_n, i) == start_n + TruncateU8(i)

FitsU8(x) == x \in 0 .. U8_MAX

(***************************************************************************)
(* SpecCbd: PolynomialVector::<K>::sample_cbd::<Eta>(sigma, start_n).      *)
(*   One step is one call of the closure, for index cbd.i.  The u8         *)
(*   addition start_n + i overflows when the sum exceeds 255: a build with *)
(*   overflow checks panics, a build without them wraps.                   *)
(***************************************************************************)
NumSigma == 2

CbdEdge == 5

CbdStride == 64

StartSamples ==
    {n \in 0 .. U8_MAX : n < CbdEdge \/ n > U8_MAX - CbdEdge \/ n % CbdStride = 0}

InitCbd ==
    /\ cbd \in [pc : {"sampling"}, sigma : 0 .. (NumSigma - 1), eta : Etas, K : Ks,
                start_n : StartSamples, i : {0}, polys : {<<>>}, counters : {<<>>},
                overflowed : {FALSE}]
    /\ field = Unused /\ reader = Unused /\ matrix = Unused
    /\ codec = Unused /\ vcodec = Unused /\ ntt = Unused

OthersThanCbd == <<field, reader, matrix, codec, vcodec, ntt>>

\* the closure body once the counter is known
CbdStore(counter, overflow) ==
    LET prf_output == PRF(cbd.eta, cbd.sigma, counter)
        poly == sample_cbd(cbd.eta, prf_output)
    IN  cbd' = [cbd EXCEPT !.polys = Append(@, poly),
                           !.counters = Append(@, counter),
                           !.overflowed = @ \/ overflow,
                           !.i = @ + 1,
                           !.pc = IF cbd.i + 1 = cbd.K THEN "done" ELSE "sampling"]

SampleCbdEntry ==
    /\ cbd.pc = "sampling"
    /\ LET wide == CounterWide(cbd.start_n, cbd.i)
       IN  IF FitsU8(wide)
           THEN CbdStore(wide, FALSE)
           ELSE \/ cbd' = [cbd EXCEPT !.pc = "panicked", !.overflowed = TRUE]
                \/ CbdStore(wide % (U8_MAX + 1), TRUE)
    /\ UNCHANGED OthersThanCbd

NextCbd == SampleCbdEntry

SpecCbd == InitCbd /\ [][NextCbd]_vars

\* C6: for every start counter N0 in 0..255, every K and every index i, the
\* call is defined (the one-byte counter arithmetic neither overflows nor
\* aborts) and polynomial i is the CBD sample of PRF(sigma, N0 + i), the
\* counters being used in increasing index order
C6_CounterNeverOverflows ==
    /\ cbd.pc # "panicked"
    /\ ~cbd.overflowed
    /\ \A i \in 0 .. (Len(cbd.polys) - 1) :
          /\ cbd.counters[i + 1] = cbd.start_n + i
          /\ cbd.polys[i + 1] = sample_cbd(cbd.eta, PRF(cbd.eta, cbd.sigma, cbd.start_n + i))

\* what the code does guarantee: as long as N0 + K <= 256 nothing overflows
\* and polynomial i is the CBD sample of PRF(sigma, N0 + i)
CbdWithinCounterRange ==
    cbd.start_n + cbd.K <= U8_MAX + 1 =>
        /\ cbd.pc # "panicked"
        /\ ~cbd.overflowed
        /\ \A i \in 0 .. (Len(cbd.polys) - 1) :
              /\ cbd.counters[i + 1] = cbd.start_n + i
              /\ cbd.polys[i + 1] =
                    sample_cbd(cbd.eta, PRF(cbd.eta, cbd.sigma, cbd.start_n + i))

(***************************************************************************)
(* SpecCbdPoly: one call of Polynomial::sample_cbd::<Eta>(B) on a buffer   *)
(* of 64 * eta bytes.                                                      *)
(***************************************************************************)
\* PRF outputs, all-ones bytes and byte ramps
CbdBuffers(eta) ==
    {PRF(eta, sigma, n) : sigma \in 0 .. (NumSigma - 1), n \in StartSamples}
        \cup WireInputs(SampleSize(eta))

InitCbdPoly ==
    /\ \E eta \in Etas :
          \E B \in CbdBuffers(eta) :
             cbd = [pc |-> "input", eta |-> eta, B |-> B, out |-> <<>>]
    /\ field = Unused /\ reader = Unused /\ matrix = Unused
    /\ codec = Unused /\ vcodec = Unused /\ ntt = Unused

SampleCbd ==
    /\ cbd.pc = "input"
    /\ cbd' = [cbd EXCEPT !.out = sample_cbd(cbd.eta, cbd.B), !.pc = "sampled"]
    /\ UNCHANGED OthersThanCbd

NextCbdPoly == SampleCbd

SpecCbdPoly == InitCbdPoly /\ [][NextCbdPoly]_vars

\* the low eta bits x and the high eta bits y of the n-th 2*eta-bit field of B
CbdHalves(eta, B, n) ==
    LET v == FieldOfBuffer(2 * eta, B, n)
    IN  <<v % Pow2(eta), v \div Pow2(eta)>>

\* C12: coefficient n of sample_cbd is (popcount(x) - popcount(y)) mod q for
\* the halves x (low) and y (high) of the n-th 2*eta-bit field of the input,
\* and ONES[i][j] = (popcount(i) - popcount(j)) mod 3329 for all i, j in 0..7
C12_CbdIsPopcountDifference ==
    /\ \A i, j \in 0 .. 7 : ONES[i + 1][j + 1] = (Popcount(i) - Popcount(j)) % Q
    /\ cbd.pc = "sampled" =>
          \A n \in 0 .. (N - 1) :
             LET xy == CbdHalves(cbd.eta, cbd.B, n)
             IN  cbd.out[n] = (Popcount(xy[1]) - Popcount(xy[2])) % Q

\* a PRF output was sampled at eta = 3 and produced both the largest and the
\* smallest difference, and a coefficient whose halves are not symmetric
C12_Witness ==
    /\ cbd.pc = "sampled"
    /\ cbd.eta = 3
    /\ cbd.B \in {PRF(3, sigma, n) : sigma \in 0 .. (NumSigma - 1), n \in StartSamples}
    /\ \E n \in 0 .. (N - 1) : cbd.out[n] = 3
    /\ \E n \in 0 .. (N - 1) : cbd.out[n] = Q - 3
    /\ \E n \in 0 .. (N - 1) :
          /\ CbdHalves(3, cbd.B, n) = <<1, 6>>
          /\ cbd.out[n] = Q - 1

(***************************************************************************)
(* NTT (algebra.rs): Algorithms 8, 9, 10 and 11.                           *)
(*   A Polynomial or NttPolynomial is a function 0..255 -> FieldElement.   *)
(*   A `for` loop over a range is evaluated by halving the range; the      *)
(*   iterations still run in increasing order, each on the result of the   *)
(*   one before.                                                           *)
(***************************************************************************)
ZETA_POW_BITREV ==
  <<
    1, 1729, 2580, 3289, 2642, 630, 1897, 848, 1062, 1919, 193, 797,
    2786, 3260, 569, 1746, 296, 2447, 1339, 1476, 3046, 56, 2240, 1333,
    1426, 2094, 535, 2882, 2393, 2879, 1974, 821, 289, 331, 3253, 1756,
    1197, 2304, 2277, 2055, 650, 1977, 2513, 632, 2865, 33, 1320, 1915,
    2319, 1435, 807, 452, 1438, 2868, 1534, 2402, 2647, 2617, 1481, 648,
    2474, 3110, 1227, 910, 17, 2761, 583, 2649, 1637, 723, 2288, 1100,
    1409, 2662, 3281, 233, 756, 2156, 3015, 3050, 1703, 1651, 2789, 1789,
    1847, 952, 1461, 2687, 939, 2308, 2437, 2388, 733, 2337, 268, 641,
    1584, 2298, 2037, 3220, 375, 2549, 2090, 1645, 1063, 319, 2773, 757,
    2099, 561, 2466, 2594, 2804, 1092, 403, 1026, 1143, 2150, 2775, 886,
    1722, 1212, 1874, 1029, 2110, 2935, 885, 2154
  >>

GAMMA ==
  <<
    17, 3312, 2761, 568, 583, 2746, 2649, 680, 1637, 1692, 723, 2606,
    2288, 1041, 1100, 2229, 1409, 1920, 2662, 667, 3281, 48, 233, 3096,
    756, 2573, 2156, 1173, 3015, 314, 3050, 279, 1703, 1626, 1651, 1678,
    2789, 540, 1789, 1540, 1847, 1482, 952, 2377, 1461, 1868, 2687, 642,
    939, 2390, 2308, 1021, 2437, 892, 2388, 941, 733, 2596, 2337, 992,
    268, 3061, 641, 2688, 1584, 1745, 2298, 1031, 2037, 1292, 3220, 109,
    375, 2954, 2549, 780, 2090, 1239, 1645, 1684, 1063, 2266, 319, 3010,
    2773, 556, 757, 2572, 2099, 1230, 561, 2768, 2466, 863, 2594, 735,
    2804, 525, 1092, 2237, 403, 2926, 1026, 2303, 1143, 2186, 2150, 1179,
    2775, 554, 886, 2443, 1722, 1607, 1212, 2117, 1874, 1455, 1029, 2300,
    2110, 1219, 2935, 394, 885, 2444, 2154, 1175
  >>

Zeta_mirrored(k) == ZETA_POW_BITREV[128 - k]

Zeta(k) == ZETA_POW_BITREV[k + 1]

\* the twiddle factor of the i-th quadratic factor X^2 - GAMMA[i]
Gamma_from_zeta_table(i) == ZETA_POW_BITREV[i + 1]

Gamma(i) == GAMMA[i + 1]

\* Algorithm 11: FieldElement::base_case_multiply, the pair <<c0, c1>>
base_case_multiply(a0, a1, b0, b1, i) ==
    LET g == Gamma(i)
        b1g == barrett_reduce(b1 * g)
        c0 == barrett_reduce(a0 * b0 + a1 * b1g)
        c1 == barrett_reduce(a0 * b1 + a1 * b0)
    IN  <<c0, c1>>

\* Algorithm 10: impl Mul<&NttPolynomial> for &NttPolynomial; iteration i of
\* the loop writes out[2i] and out[2i + 1] and nothing else
MultiplyNTTs(lhs, rhs) ==
    [x \in 0 .. (N - 1) |->
        LET i == x \div 2
        IN  base_case_multiply(lhs[2 * i], lhs[2 * i + 1],
                               rhs[2 * i], rhs[2 * i + 1], i)[(x % 2) + 1]]

\* A loop is written as the first half of its iterations followed by the
\* second half.  TLC evaluates an operator's argument where it is first used;
\* Evaluated(v) is TRUE for every v and makes the first half a value before
\* the second half starts from it.
Evaluated(v) == v = v

\* the body of the innermost loop of Polynomial::ntt
NttButterfly_swapped(f, zeta, j, len) ==
    LET t == FieldMul(zeta, f[j + len])
    IN  [f EXCEPT ![j + len] = FieldAdd(f[j], t), ![j] = FieldSub(f[j], t)]

NttButterfly(f, zeta, j, len) ==
    LET t == FieldMul(zeta, f[j + len])
    IN  [f EXCEPT ![j + len] = FieldSub(f[j], t), ![j] = FieldAdd(f[j], t)]

\* for j in a..b { butterfly }
RECURSIVE NttInner(_, _, _, _, _)
NttInner(f, zeta, len, a, b) ==
    IF a >= b THEN f
    ELSE IF b = a + 1 THEN NttButterfly(f, zeta, a, len)
    ELSE LET mid == (a + b) \div 2
             left == NttInner(f, zeta, len, a, mid)
         IN  IF Evaluated(left) THEN NttInner(left, zeta, len, mid, b) ELSE left

\* one iteration of `for start in (0..256).step_by(2 * len)`, on the loop
\* state st = [f, k]
NttBlock(st, len, start) ==
    [f |-> NttInner(st.f, Zeta(st.k), len, start, start + len), k |-> st.k + 1]

\* the iterations for blocks a .. b-1 (block x starts at 2 * len * x)
RECURSIVE NttBlocks(_, _, _, _)
NttBlocks(st, len, a, b) ==
    IF a >= b THEN st
    ELSE IF b = a + 1 THEN NttBlock(st, len, 2 * len * a)
    ELSE LET mid == (a + b) \div 2
             left == NttBlocks(st, len, a, mid)
         IN  IF Evaluated(left) THEN NttBlocks(left, len, mid, b) ELSE left

\* for len in lens { ... }
RECURSIVE NttLayers(_, _)
NttLayers(st, lens) ==
    IF lens = <<>> THEN st
    ELSE LET len == Head(lens)
             layer == NttBlocks(st, len, 0, N \div (2 * len))
         IN  IF Evaluated(layer) THEN NttLayers(layer, Tail(lens)) ELSE layer

\* Algorithm 8: Polynomial::ntt
Polynomial_ntt(f) == NttLayers([f |-> f, k |-> 1], <<128, 64, 32, 16, 8, 4, 2>>).f

\* the body of the innermost loop of NttPolynomial::ntt_inverse
InvButterfly(f, zeta, j, len) ==
    LET t == f[j]
    IN  [f EXCEPT ![j] = FieldAdd(t, f[j + len]),
                  ![j + len] = FieldMul(zeta, FieldSub(f[j + len], t))]

RECURSIVE InvInner(_, _, _, _, _)
InvInner(f, zeta, len, a, b) ==
    IF a >= b THEN f
    ELSE IF b = a + 1 THEN InvButterfly(f, zeta, a, len)
    ELSE LET mid == (a + b) \div 2
             left == InvInner(f, zeta, len, a, mid)
         IN  IF Evaluated(left) THEN InvInner(left, zeta, len, mid, b) ELSE left

InvBlock(st, len, start) ==
    [f |-> InvInner(st.f, Zeta(st.k), len, start, start + len), k |-> st.k - 1]

RECURSIVE InvBlocks(_, _, _, _)
InvBlocks(st, len, a, b) ==
    IF a >= b THEN st
    ELSE IF b = a + 1 THEN InvBlock(st, len, 2 * len * a)
    ELSE LET mid == (a + b) \div 2
             left == InvBlocks(st, len, a, mid)
         IN  IF Evaluated(left) THEN InvBlocks(left, len, mid, b) ELSE left

RECURSIVE InvLayers(_, _)
InvLayers(st, lens) ==
    IF lens = <<>> THEN st
    ELSE LET len == Head(lens)
             layer == InvBlocks(st, len, 0, N \div (2 * len))
         IN  IF Evaluated(layer) THEN InvLayers(layer, Tail(lens)) ELSE layer

\* FieldElement(3303) * &Polynomial(f)
InverseScale_none(f) == f

InverseScale(f) == [x \in 0 .. (N - 1) |-> FieldMul(3303, f[x])]

\* Algorithm 9: NttPolynomial::ntt_inverse
NttPolynomial_ntt_inverse(f_hat) ==
    InverseScale(InvLayers([f |-> f_hat, k |-> 127], <<2, 4, 8, 16, 32, 64, 128>>).f)

(***************************************************************************)
(* test::Mul<&Polynomial> for &Polynomial: multiplication in R_q modulo    *)
(* X^256 + 1.  The double loop adds sign * x * y to out[index] for every   *)
(* (i, j); out[index] receives one term from each i, in increasing i.      *)
(***************************************************************************)
SchoolbookTerm(lhs, rhs, index, i) ==
    LET j == (index - i) % N
        sign == IF i + j < N THEN 1 ELSE Q - 1
    IN  FieldMul(FieldMul(sign, lhs[i]), rhs[j])

RECURSIVE SchoolbookAcc(_, _, _, _, _, _)
SchoolbookAcc(lhs, rhs, index, acc, a, b) ==
    IF a >= b THEN acc
    ELSE IF b = a + 1 THEN FieldAdd(acc, SchoolbookTerm(lhs, rhs, index, a))
    ELSE LET mid == (a + b) \div 2
             left == SchoolbookAcc(lhs, rhs, index, acc, a, mid)
         IN  IF Evaluated(left) THEN SchoolbookAcc(lhs, rhs, index, left, mid, b)
             ELSE left

PolynomialMul(lhs, rhs) ==
    [index \in 0 .. (N - 1) |-> SchoolbookAcc(lhs, rhs, index, 0, 0, N)]

(***************************************************************************)
(* SpecNtt: the steps of test::ntt on a pair of polynomials f, g.          *)
(***************************************************************************)
TestF == [i \in 0 .. (N - 1) |-> i]

TestG == [i \in 0 .. (N - 1) |-> 2 * i]

\* the monomial X^e
Monomial(e) == [i \in 0 .. (N - 1) |-> IF i = e THEN 1 ELSE 0]

NttInputsF ==
    {TestF, TestG, Constant(Q - 1), Monomial(1), Monomial(N - 1)}
        \cup {Ramp(s, Q) : s \in 1 .. NumRamps}

NttInputsG == {TestG, Constant(Q - 1), Monomial(N - 1)}

InitNtt ==
    /\ ntt \in [pc : {"init"}, f : NttInputsF, g : NttInputsG,
                f_hat : {<<>>}, g_hat : {<<>>}, f_unhat : {<<>>},
                fg_hat : {<<>>}, fg_unhat : {<<>>}, fg : {<<>>}]
    /\ field = Unused /\ reader = Unused /\ matrix = Unused
    /\ codec = Unused /\ vcodec = Unused /\ cbd = Unused

OthersThanNtt == <<field, reader, matrix, codec, vcodec, cbd>>

\* let f_hat = f.ntt(); let g_hat = g.ntt();
Ntt ==
    /\ ntt.pc = "init"
    /\ ntt' = [ntt EXCEPT !.f_hat = Polynomial_ntt(ntt.f),
                          !.g_hat = Polynomial_ntt(ntt.g),
                          !.pc = "hat"]
    /\ UNCHANGED OthersThanNtt

\* let f_unhat = f_hat.ntt_inverse();
NttInverse ==
    /\ ntt.pc = "hat"
    /\ ntt' = [ntt EXCEPT !.f_unhat = NttPolynomial_ntt_inverse(ntt.f_hat),
                          !.pc = "unhat"]
    /\ UNCHANGED OthersThanNtt

\* let f_hat_g_hat = &f_hat * &g_hat;
MulNtt ==
    /\ ntt.pc = "unhat"
    /\ ntt' = [ntt EXCEPT !.fg_hat = MultiplyNTTs(ntt.f_hat, ntt.g_hat),
                          !.pc = "mul"]
    /\ UNCHANGED OthersThanNtt

\* let fg_unhat = f_hat_g_hat.ntt_inverse();
NttInverseOfProduct ==
    /\ ntt.pc = "mul"
    /\ ntt' = [ntt EXCEPT !.fg_unhat = NttPolynomial_ntt_inverse(ntt.fg_hat),
                          !.pc = "unmul"]
    /\ UNCHANGED OthersThanNtt

\* let fg = &f * &g;
MulSchoolbook ==
    /\ ntt.pc = "unmul"
    /\ ntt' = [ntt EXCEPT !.fg = PolynomialMul(ntt.f, ntt.g),
                          !.pc = "done"]
    /\ UNCHANGED OthersThanNtt

NextNtt == Ntt \/ NttInverse \/ MulNtt \/ NttInverseOfProduct \/ MulSchoolbook

SpecNtt == InitNtt /\ [][NextNtt]_vars

IsCanonicalPoly(p) == \A i \in 0 .. (N - 1) : Canonical(p[i])

NttReached(stages) == ntt.pc \in stages

\* C4: for every Polynomial p with canonical coefficients,
\* p.ntt().ntt_inverse() = p
C4_NttInverseOfNtt ==
    (NttReached({"unhat", "mul", "unmul", "done"}) /\ IsCanonicalPoly(ntt.f)) =>
        ntt.f_unhat = ntt.f

\* f[i] = i went through ntt and ntt_inverse, and its transform differs
\* from it
C4_Witness ==
    /\ ntt.pc = "unhat"
    /\ ntt.f = TestF
    /\ ntt.f_hat # ntt.f
    /\ ntt.f_unhat = TestF

\* C5: for canonical f and g, (f.ntt() * g.ntt()).ntt_inverse() is the
\* product of f and g in R_q by the schoolbook rule with X^256 = -1; in
\* particular for f[i] = i, g[i] = 2i
C5_NttMultiplication ==
    (ntt.pc = "done" /\ IsCanonicalPoly(ntt.f) /\ IsCanonicalPoly(ntt.g)) =>
        ntt.fg_unhat = ntt.fg

\* f[i] = i and g[i] = 2i have been multiplied both ways, and terms wrapped
\* around X^256
C5_Witness ==
    /\ ntt.pc = "done"
    /\ ntt.f = TestF
    /\ ntt.g = TestG
    /\ ntt.fg_unhat = ntt.fg
    /\ ntt.fg[0] = 400     \* - sum of 2 * i * (256 - i) over i = 1..255, mod q


(***************************************************************************)
(* NttVector and NttMatrix arithmetic (algebra.rs).                        *)
(*   An NttVector<K> is a function 0..K-1 -> NttPolynomial; an             *)
(*   NttMatrix<K> is a function 0..K-1 -> NttVector<K>, one per row.       *)
(***************************************************************************)
\* impl Add<&NttPolynomial> for &NttPolynomial
NttPolyAdd_keep_left(a, b) == a

NttPolyAdd(a, b) == [x \in 0 .. (N - 1) |-> FieldAdd(a[x], b[x])]

\* FunctionalArray::fold(|x, y| x + y) over elements 0 .. n-1: out starts as
\* self[0] and takes the elements 1 .. n-1 in order
RECURSIVE FoldAdd(_, _)
FoldAdd(arr, n) ==
    IF n = 1 THEN arr[0] ELSE NttPolyAdd(FoldAdd(arr, n - 1), arr[n - 1])

\* impl Mul<&NttVector<K>> for &NttVector<K>
DotProduct(lhs, rhs, k) ==
    FoldAdd([j \in 0 .. (k - 1) |-> MultiplyNTTs(lhs[j], rhs[j])], k)

\* impl Mul<&NttVector<K>> for &NttMatrix<K>
MatrixMul_by_columns(A, v, k) ==
    [i \in 0 .. (k - 1) |-> DotProduct([j \in 0 .. (k - 1) |-> A[j][i]], v, k)]

MatrixMul(A, v, k) == [i \in 0 .. (k - 1) |-> DotProduct(A[i], v, k)]

\* NttMatrix::transpose
MatrixTranspose_identity(A, k) == A

MatrixTranspose(A, k) == [i \in 0 .. (k - 1) |-> [j \in 0 .. (k - 1) |-> A[j][i]]]

\* test::const_ntt
const_ntt(x) == Polynomial_ntt([i \in 0 .. (N - 1) |-> IF i = 0 THEN x ELSE 0])

(***************************************************************************)
(* SpecMatVec: the steps of test::ntt_matrix on a matrix A and a vector v: *)
(* &a * &v_in, a.transpose(), and the transpose of the transpose.          *)
(***************************************************************************)
\* the families of input matrices: "counting" has row i = [K*i + 1, ...,
\* K*i + K] as constant polynomials (test::ntt_matrix for K = 3), "sliding"
\* has row i = [i + 1, ..., i + K], "edge" has q - 1 in every slot, and
\* "ramp" has a different non-constant polynomial in every entry
MatKinds ==
    {[fam |-> "counting", s |-> 0], [fam |-> "sliding", s |-> 0],
     [fam |-> "edge", s |-> 0]}
        \cup {[fam |-> "ramp", s |-> s] : s \in 1 .. NumRamps}

MatInput(kind, k) ==
    [i \in 0 .. (k - 1) |-> [j \in 0 .. (k - 1) |->
        CASE kind.fam = "counting" -> const_ntt(k * i + j + 1)
          [] kind.fam = "sliding" -> const_ntt(i + j + 1)
          [] kind.fam = "edge" -> Constant(Q - 1)
          [] OTHER -> Ramp(kind.s + k * i + j, Q)]]

VecKinds == {"counting", "edge", "ramp"}

VecInput(vkind, k) ==
    [j \in 0 .. (k - 1) |->
        CASE vkind = "counting" -> const_ntt(j + 1)
          [] vkind = "edge" -> Constant(Q - 1)
          [] OTHER -> Ramp(50 + j, Q)]

InitMatVec ==
    /\ \E k \in Ks, kind \in MatKinds, vkind \in VecKinds :
          matrix = [pc |-> "init", K |-> k, kind |-> kind, vkind |-> vkind,
                    A |-> MatInput(kind, k), v |-> VecInput(vkind, k),
                    out |-> <<>>, At |-> <<>>, Att |-> <<>>]
    /\ field = Unused /\ reader = Unused /\ codec = Unused
    /\ vcodec = Unused /\ ntt = Unused /\ cbd = Unused

\* &a * &v_in
MulMatVec ==
    /\ matrix.pc = "init"
    /\ matrix' = [matrix EXCEPT !.out = MatrixMul(matrix.A, matrix.v, matrix.K),
                                !.pc = "multiplied"]
    /\ UNCHANGED OthersThanMatrix

\* a.transpose()
Transpose ==
    /\ matrix.pc = "multiplied"
    /\ matrix' = [matrix EXCEPT !.At = MatrixTranspose(matrix.A, matrix.K),
                                !.pc = "transposed"]
    /\ UNCHANGED OthersThanMatrix

\* a.transpose().transpose()
TransposeAgain ==
    /\ matrix.pc = "transposed"
    /\ matrix' = [matrix EXCEPT !.Att = MatrixTranspose(matrix.At, matrix.K),
                                !.pc = "done"]
    /\ UNCHANGED OthersThanMatrix

NextMatVec == MulMatVec \/ Transpose \/ TransposeAgain

SpecMatVec == InitMatVec /\ [][NextMatVec]_vars

\* the vector of constant polynomials with the given scalars, in the NTT
\* domain
ConstVector(scalars) == [i \in 0 .. (Len(scalars) - 1) |-> const_ntt(scalars[i + 1])]

ConstMatrix(rows) == [i \in 0 .. (Len(rows) - 1) |-> ConstVector(rows[i + 1])]

\* the sum over j of term(j), j in 0 .. k-1, as an integer
RECURSIVE SumOver(_, _, _, _, _, _)
SumOver(A, v, i, m, odd, k) ==
    IF k = 0 THEN 0
    ELSE LET a0 == A[i][k - 1][2 * m]
             a1 == A[i][k - 1][2 * m + 1]
             b0 == v[k - 1][2 * m]
             b1 == v[k - 1][2 * m + 1]
             term == IF odd
                     THEN ((a0 * b1) + (a1 * b0)) % Q
                     ELSE ((a0 * b0) + ((((a1 * b1) % Q) * GAMMA[m + 1]) % Q)) % Q
         IN  term + SumOver(A, v, i, m, odd, k - 1)

\* C13: (A * v)[i] is the dot product of row i with v: the sum over j of the
\* base-case product A[i][j] * v[j], i.e. in the quadratic factor m the pair
\* (sum of a0*b0 + a1*b1*gamma_m, sum of a0*b1 + a1*b0) mod q; e.g. rows
\* [1,2,3], [4,5,6], [7,8,9] times [1,2,3] give [14,32,50]
C13_MatrixTimesVector ==
    matrix.pc # "init" =>
        /\ DOMAIN matrix.out = 0 .. (matrix.K - 1)
        /\ \A i \in 0 .. (matrix.K - 1) :
              /\ matrix.out[i] = DotProduct(matrix.A[i], matrix.v, matrix.K)
              /\ \A m \in 0 .. ((N \div 2) - 1) :
                    /\ matrix.out[i][2 * m] =
                          SumOver(matrix.A, matrix.v, i, m, FALSE, matrix.K) % Q
                    /\ matrix.out[i][2 * m + 1] =
                          SumOver(matrix.A, matrix.v, i, m, TRUE, matrix.K) % Q
        /\ (/\ matrix.K = 3
            /\ matrix.A = ConstMatrix(<< <<1, 2, 3>>, <<4, 5, 6>>, <<7, 8, 9>> >>)
            /\ matrix.v = ConstVector(<<1, 2, 3>>)) =>
              matrix.out = ConstVector(<<14, 32, 50>>)

\* a matrix of non-constant polynomials has been multiplied by a vector of
\* non-constant polynomials, and the sums wrapped around q
C13_Witness ==
    /\ matrix.pc = "multiplied"
    /\ matrix.K = 4
    /\ matrix.kind.fam = "ramp"
    /\ matrix.vkind = "ramp"
    /\ matrix.out[3] = DotProduct(matrix.A[3], matrix.v, 4)
    /\ \E m \in 0 .. ((N \div 2) - 1) :
          SumOver(matrix.A, matrix.v, 3, m, FALSE, 4) >= Q

\* C14 as stated: for K = 3, A with row i = [i+1, i+2, i+3] as constant
\* polynomials times v = [1, 2, 3] is [14, 32, 50]
C14_AsStated ==
    (/\ matrix.pc # "init"
     /\ matrix.K = 3
     /\ matrix.A = ConstMatrix(<< <<1, 2, 3>>, <<2, 3, 4>>, <<3, 4, 5>> >>)
     /\ matrix.v = ConstVector(<<1, 2, 3>>)) =>
        matrix.out = ConstVector(<<14, 32, 50>>)

\* C14 amended: for K = 3, A with row i = [3i+1, 3i+2, 3i+3] as constant
\* polynomials (scalar in slot 0, brought to the NTT domain) times
\* v = [1, 2, 3] is [14, 32, 50] as constant polynomials
C14_KnownAnswer ==
    (/\ matrix.pc # "init"
     /\ matrix.K = 3
     /\ matrix.A = [i \in 0 .. 2 |-> ConstVector(<<3 * i + 1, 3 * i + 2, 3 * i + 3>>)]
     /\ matrix.v = ConstVector(<<1, 2, 3>>)) =>
        /\ matrix.out[0] = const_ntt(14)
        /\ matrix.out[1] = const_ntt(32)
        /\ matrix.out[2] = const_ntt(50)

\* the matrix of test::ntt_matrix has been multiplied by [1, 2, 3]
C14_Witness ==
    /\ matrix.pc = "multiplied"
    /\ matrix.K = 3
    /\ matrix.A[0] = ConstVector(<<1, 2, 3>>)
    /\ matrix.A[1] = ConstVector(<<4, 5, 6>>)
    /\ matrix.A[2] = ConstVector(<<7, 8, 9>>)
    /\ matrix.v = ConstVector(<<1, 2, 3>>)
    /\ matrix.out = ConstVector(<<14, 32, 50>>)

\* C15: A.transpose()[i][j] = A[j][i] for all i, j in 0..K, hence
\* A.transpose().transpose() = A, and transpose leaves A itself unchanged
C15_Transpose ==
    /\ matrix.A = MatInput(matrix.kind, matrix.K)
    /\ matrix.pc \in {"transposed", "done"} =>
          /\ DOMAIN matrix.At = 0 .. (matrix.K - 1)
          /\ \A i, j \in 0 .. (matrix.K - 1) : matrix.At[i][j] = matrix.A[j][i]
    /\ matrix.pc = "done" => matrix.Att = matrix.A

\* a matrix that differs from its transpose has been transposed twice
C15_Witness ==
    /\ matrix.pc = "done"
    /\ matrix.K = 4
    /\ matrix.At # matrix.A
    /\ matrix.At[0][3] = matrix.A[3][0]
    /\ matrix.A[3][0] # matrix.A[0][3]
    /\ matrix.Att = matrix.A


(***************************************************************************)
(* SpecTables: one entry of ZETA_POW_BITREV and of GAMMA is read.          *)
(***************************************************************************)
InitTables ==
    /\ ntt \in [pc : {"init"}, i : 0 .. ((N \div 2) - 1), out : {0}]
    /\ field = Unused /\ reader = Unused /\ matrix = Unused
    /\ codec = Unused /\ vcodec = Unused /\ cbd = Unused

\* ZETA_POW_BITREV[i]
ReadZeta ==
    /\ ntt.pc = "init"
    /\ ntt' = [ntt EXCEPT !.out = Zeta(ntt.i), !.pc = "zeta"]
    /\ UNCHANGED OthersThanNtt

\* GAMMA[i]
ReadGamma ==
    /\ ntt.pc = "init"
    /\ ntt' = [ntt EXCEPT !.out = Gamma(ntt.i), !.pc = "gamma"]
    /\ UNCHANGED OthersThanNtt

NextTables == ReadZeta \/ ReadGamma

SpecTables == InitTables /\ [][NextTables]_vars

\* the 7-bit representation of i, reversed
BitRev7(i) ==
    64 * Bit(i, 0) + 32 * Bit(i, 1) + 16 * Bit(i, 2) + 8 * Bit(i, 3)
        + 4 * Bit(i, 4) + 2 * Bit(i, 5) + Bit(i, 6)

\* b^e mod q by repeated squaring
RECURSIVE PowModQ(_, _)
PowModQ(b, e) ==
    IF e = 0 THEN 1
    ELSE LET h == PowModQ(b, e \div 2)
             sq == (h * h) % Q
         IN  IF e % 2 = 1 THEN (sq * b) % Q ELSE sq

\* C16: for every i in 0..127, ZETA_POW_BITREV[i] = 17^BitRev7(i) mod 3329
\* and GAMMA[i] = 17^(2*BitRev7(i)+1) mod 3329, and every entry is canonical
C16_TablesMatchDerivation ==
    /\ Len(ZETA_POW_BITREV) = N \div 2
    /\ Len(GAMMA) = N \div 2
    /\ ntt.pc = "zeta" =>
          /\ ntt.out = PowModQ(17, BitRev7(ntt.i))
          /\ Canonical(ntt.out)
    /\ ntt.pc = "gamma" =>
          /\ ntt.out = PowModQ(17, 2 * BitRev7(ntt.i) + 1)
          /\ Canonical(ntt.out)

\* an entry whose index is not its own bit reversal has been read from GAMMA
C16_Witness ==
    /\ ntt.pc = "gamma"
    /\ ntt.i = 1
    /\ BitRev7(ntt.i) = 64
    /\ ntt.out = PowModQ(17, 129)
    /\ ntt.out = GAMMA[2]

(***************************************************************************)
(* SpecBaseCase: one call of FieldElement::base_case_multiply.             *)
(*   field.wide holds the u32 values of the call before they are reduced:  *)
(*   b1 * g, a0 * b0 + a1 * b1g and a0 * b1 + a1 * b0.                      *)
(***************************************************************************)
BaseEdge == 2

BaseStride == 1000

PairStride == 16

\* the u32 intermediates of base_case_multiply
BaseCaseWide(a0, a1, b0, b1, i) ==
    LET g == Gamma(i)
        b1g == barrett_reduce(b1 * g)
    IN  [b1g_in |-> b1 * g,
         b1g    |-> b1g,
         sum0   |-> a0 * b0 + a1 * b1g,
         sum1   |-> a0 * b1 + a1 * b0]

\* a value of type u32: the upper half is below 2^16
FitsU32(x) == x >= 0 /\ x \div Pow2(16) < Pow2(16)

\* canonical coefficients at both ends of the range, and a stride
BaseSamples ==
    (0 .. (BaseEdge - 1)) \cup ((Q - BaseEdge) .. (Q - 1))
        \cup {BaseStride * n : n \in 0 .. ((Q - 1) \div BaseStride)}

PairSamples == {PairStride * n : n \in 0 .. ((N \div 2 - 1) \div PairStride)}
                   \cup {N \div 2 - 1}

\* the canonical b1 whose product with GAMMA[i] reduces to q - 1
MinusOneOver(i) == CHOOSE b \in 0 .. (Q - 1) : (b * Gamma(i)) % Q = Q - 1

InitBaseCase ==
    /\ \E a0 \in BaseSamples, a1 \in BaseSamples, b0 \in BaseSamples,
          i \in PairSamples :
         \E b1 \in BaseSamples \cup {MinusOneOver(i)} :
            field = [a0 |-> a0, a1 |-> a1, b0 |-> b0, b1 |-> b1, i |-> i,
                     op |-> "none", wide |-> <<>>, out |-> <<>>]
    /\ reader = Unused /\ matrix = Unused /\ codec = Unused
    /\ vcodec = Unused /\ ntt = Unused /\ cbd = Unused

BaseCaseMultiply ==
    /\ field.op = "none"
    /\ field' = [field EXCEPT
                    !.op = "base_case_multiply",
                    !.wide = BaseCaseWide(field.a0, field.a1, field.b0,
                                          field.b1, field.i),
                    !.out = base_case_multiply(field.a0, field.a1, field.b0,
                                               field.b1, field.i)]
    /\ UNCHANGED OthersThanField

NextBaseCase == BaseCaseMultiply

SpecBaseCase == InitBaseCase /\ [][NextBaseCase]_vars

\* C21: for canonical a0, a1, b0, b1 and a pair index i in 0..127,
\* base_case_multiply returns canonical (c0, c1) with
\* c0 = (a0*b0 + a1*b1*GAMMA[i]) mod q and c1 = (a0*b1 + a1*b0) mod q; every
\* intermediate fits 32 bits, the two-product sums are at most 2*(q-1)^2, and
\* barrett_reduce is exact on them although they pass q^2
C21_BaseCaseMultiply ==
    field.op = "base_case_multiply" =>
        LET w == field.wide
            g == GAMMA[field.i + 1]
        IN  /\ field.i \in 0 .. 127
            /\ FitsU32(w.b1g_in) /\ FitsU32(w.sum0) /\ FitsU32(w.sum1)
            /\ w.b1g_in < Q * Q
            /\ w.b1g = (field.b1 * g) % Q
            /\ w.sum0 <= 2 * (Q - 1) * (Q - 1)
            /\ w.sum1 <= 2 * (Q - 1) * (Q - 1)
            /\ barrett_reduce(w.sum0) = w.sum0 % Q
            /\ barrett_reduce(w.sum1) = w.sum1 % Q
            /\ field.out[1] =
                   (((field.a0 * field.b0) % Q)
                       + ((field.a1 * ((field.b1 * g) % Q)) % Q)) % Q
            /\ field.out[2] =
                   (((field.a0 * field.b1) % Q)
                       + ((field.a1 * field.b0) % Q)) % Q
            /\ Canonical(field.out[1]) /\ Canonical(field.out[2])

\* a call whose first sum is the largest possible, 2*(q-1)^2, beyond q^2,
\* and whose second sum is beyond q^2 as well
C21_Witness ==
    /\ field.op = "base_case_multiply"
    /\ field.wide.sum0 = 2 * (Q - 1) * (Q - 1)
    /\ field.wide.sum1 > Q * Q
    /\ field.out[1] = field.wide.sum0 % Q
    /\ field.out[2] = field.wide.sum1 % Q

(***************************************************************************)
(* SpecSampleTranspose: NttMatrix::sample_uniform(rho, false) and          *)
(* NttMatrix::sample_uniform(rho, true) on one seed, row by row, and the   *)
(* transpose() of the first.                                               *)
(*   matrix.A and matrix.At hold the rows generated so far with the flag   *)
(*   clear and set; matrix.T is matrix.A.transpose() once it was taken.    *)
(***************************************************************************)
\* NttVector::sample_uniform(rho, i, transpose): GenericArray::generate over
\* the K columns j
NttVectorSampleUniform(rho, i, transpose, k) ==
    [j \in 0 .. (k - 1) |->
        LET key == EntryKey(rho, i, j, transpose)
        IN  sample_uniform(XOF(key[1], key[2], key[3]))]

\* the closure of NttMatrix::sample_uniform(rho, transpose) at row i
NttMatrixSampleRow_flag_dropped(rho, i, transpose, k) ==
    NttVectorSampleUniform(rho, i, FALSE, k)

NttMatrixSampleRow(rho, i, transpose, k) ==
    NttVectorSampleUniform(rho, i, transpose, k)

InitSampleTranspose ==
    /\ matrix \in [pc : {"sampling"}, rho : Rhos, K : Ks,
                   A : {<<>>}, rowsA : {0}, At : {<<>>}, rowsAt : {0},
                   T : {<<>>}, transposed : {FALSE}]
    /\ field = Unused /\ reader = Unused /\ codec = Unused
    /\ vcodec = Unused /\ ntt = Unused /\ cbd = Unused

\* the next row of NttMatrix::sample_uniform(rho, false)
SampleRowPlain ==
    /\ matrix.rowsA < matrix.K
    /\ LET i == matrix.rowsA
       IN  matrix' = [matrix EXCEPT
                         !.A = @ @@ (i :> NttMatrixSampleRow(matrix.rho, i, FALSE,
                                                            matrix.K)),
                         !.rowsA = i + 1]
    /\ UNCHANGED OthersThanMatrix

\* the next row of NttMatrix::sample_uniform(rho, true)
SampleRowTransposed ==
    /\ matrix.rowsAt < matrix.K
    /\ LET i == matrix.rowsAt
       IN  matrix' = [matrix EXCEPT
                         !.At = @ @@ (i :> NttMatrixSampleRow(matrix.rho, i, TRUE,
                                                             matrix.K)),
                         !.rowsAt = i + 1]
    /\ UNCHANGED OthersThanMatrix

\* NttMatrix::sample_uniform(rho, false).transpose()
TransposeSampled ==
    /\ matrix.rowsA = matrix.K
    /\ ~matrix.transposed
    /\ matrix' = [matrix EXCEPT !.T = MatrixTranspose(matrix.A, matrix.K),
                                !.transposed = TRUE]
    /\ UNCHANGED OthersThanMatrix

NextSampleTranspose == SampleRowPlain \/ SampleRowTransposed \/ TransposeSampled

SpecSampleTranspose == InitSampleTranspose /\ [][NextSampleTranspose]_vars

\* C22: for every seed rho and size K the matrix sampled with the transpose
\* flag set is the transpose of the matrix sampled with the flag clear:
\* entry (i, j) of the one is entry (j, i) of the other as soon as both are
\* generated, and the whole matrices agree once transpose() was applied
C22_SampleTransposeFlag ==
    /\ \A i \in 0 .. (matrix.rowsAt - 1), j \in 0 .. (matrix.rowsA - 1) :
          matrix.At[i][j] = matrix.A[j][i]
    /\ (matrix.transposed /\ matrix.rowsAt = matrix.K) =>
          /\ matrix.At = matrix.T
          /\ DOMAIN matrix.At = 0 .. (matrix.K - 1)
          /\ \A i \in 0 .. (matrix.K - 1) :
                DOMAIN matrix.At[i] = 0 .. (matrix.K - 1)

\* both matrices of a seed are complete for K = 3, transpose() was applied,
\* and the two sampled matrices differ off the diagonal
C22_Witness ==
    /\ matrix.transposed
    /\ matrix.K = 3
    /\ matrix.rowsA = matrix.K /\ matrix.rowsAt = matrix.K
    /\ matrix.At = matrix.T
    /\ matrix.At # matrix.A
    /\ matrix.At[0][1] # matrix.A[0][1]

(***************************************************************************)
(* SpecCbdTally: the loop of test::test_sample over the samples that       *)
(* Polynomial::sample_cbd gives for one coefficient as its 2*eta-bit input *)
(* field takes the values 0, 1, ..., 2^(2*eta) - 1 in turn.                *)
(*   cbd.tally counts the samples per value of the reference distribution, *)
(*   cbd.outside the samples on which an assertion of test_sample fails.   *)
(***************************************************************************)
PosStride == 128

\* test::CBD2 and test::CBD3, as the numerators over 16 and over 64
CBD2 == ((Q - 2) :> 1) @@ ((Q - 1) :> 4) @@ (0 :> 6) @@ (1 :> 4) @@ (2 :> 1)

CBD3 ==
    ((Q - 3) :> 1) @@ ((Q - 2) :> 6) @@ ((Q - 1) :> 15) @@ (0 :> 20)
        @@ (1 :> 15) @@ (2 :> 6) @@ (3 :> 1)

CbdReference(eta) == IF eta = 2 THEN CBD2 ELSE CBD3

\* the coefficients whose input field is varied
CbdPositions == {PosStride * n : n \in 0 .. ((N - 1) \div PosStride)} \cup {N - 1}

\* the PRF output whose field number pos is v and whose other fields all are bg
CbdBufferWith(eta, pos, v, bg) ==
    byte_encode(SampleSize(eta), [i \in 0 .. (N - 1) |-> IF i = pos THEN v ELSE bg])

InitCbdTally ==
    /\ \E eta \in Etas, pos \in CbdPositions :
          \E bg \in {0, Pow2(SampleSize(eta)) - 1} :
             cbd = [pc |-> "tally", eta |-> eta, pos |-> pos, bg |-> bg, v |-> 0,
                    tally |-> [x \in DOMAIN CbdReference(eta) |-> 0],
                    outside |-> 0]
    /\ field = Unused /\ reader = Unused /\ matrix = Unused
    /\ codec = Unused /\ vcodec = Unused /\ ntt = Unused

\* one iteration of `for x in sample`: assert!(x.0 < Q),
\* assert!(ref_dist[x.0] > 0.0), sample_dist[x.0] += bump
TallySample ==
    /\ cbd.pc = "tally"
    /\ LET B == CbdBufferWith(cbd.eta, cbd.pos, cbd.v, cbd.bg)
           x == sample_cbd(cbd.eta, B)[cbd.pos]
           inside == x < Q /\ x \in DOMAIN CbdReference(cbd.eta)
           last == cbd.v + 1 = Pow2(SampleSize(cbd.eta))
       IN  cbd' = [cbd EXCEPT
                      !.tally = IF inside THEN [@ EXCEPT ![x] = @ + 1] ELSE @,
                      !.outside = IF inside THEN @ ELSE @ + 1,
                      !.v = @ + 1,
                      !.pc = IF last THEN "done" ELSE "tally"]
    /\ UNCHANGED OthersThanCbd

NextCbdTally == TallySample

SpecCbdTally == InitCbdTally /\ [][NextCbdTally]_vars

\* the binomial coefficient C(n, k)
RECURSIVE Binomial(_, _)
Binomial(n, k) ==
    IF k = 0 \/ k = n THEN 1 ELSE Binomial(n - 1, k - 1) + Binomial(n - 1, k)

RECURSIVE TallyTotal(_, _)
TallyTotal(tally, values) ==
    IF values = {} THEN 0
    ELSE LET x == CHOOSE y \in values : TRUE
         IN  tally[x] + TallyTotal(tally, values \ {x})

\* C23: over all 2^(2*eta) values of one 2*eta-bit input field, the number
\* of values that sample_cbd maps to v (negative v stored as q - |v|) is
\* C(2*eta, v + eta), which is (1,4,6,4,1) over -2..2 for eta = 2 and
\* (1,6,15,20,15,6,1) over -3..3 for eta = 3, and no output falls outside
\* {0..eta} union {q-eta..q-1}
C23_CbdCounts ==
    cbd.pc \in {"tally", "done"} =>
        /\ DOMAIN cbd.tally = (0 .. cbd.eta) \cup ((Q - cbd.eta) .. (Q - 1))
        /\ cbd.outside = 0
        /\ TallyTotal(cbd.tally, DOMAIN cbd.tally) = cbd.v
        /\ cbd.pc = "done" =>
              /\ cbd.v = Pow2(2 * cbd.eta)
              /\ \A s \in (0 - cbd.eta) .. cbd.eta :
                    cbd.tally[s % Q] = Binomial(2 * cbd.eta, s + cbd.eta)
              /\ cbd.eta = 2 =>
                    <<cbd.tally[Q - 2], cbd.tally[Q - 1], cbd.tally[0],
                      cbd.tally[1], cbd.tally[2]>> = <<1, 4, 6, 4, 1>>
              /\ cbd.eta = 3 =>
                    <<cbd.tally[Q - 3], cbd.tally[Q - 2], cbd.tally[Q - 1],
                      cbd.tally[0], cbd.tally[1], cbd.tally[2], cbd.tally[3]>>
                        = <<1, 6, 15, 20, 15, 6, 1>>
              /\ cbd.tally = CbdReference(cbd.eta)

\* all 64 values of the last field of an eta = 3 input, surrounded by fields
\* of all-ones bits, have been sampled
C23_Witness ==
    /\ cbd.pc = "done"
    /\ cbd.eta = 3
    /\ cbd.pos = N - 1
    /\ cbd.bg = Pow2(6) - 1
    /\ cbd.v = 64
    /\ cbd.tally[0] = 20
    /\ cbd.tally[Q - 3] = 1
    /\ cbd.tally[3] = 1

=============================================================================
